---- MODULE Spec2Model ----
(***************************************************************************)
(* TLS configuration of the homeserver (synapse/config/tls.py):            *)
(* TlsConfig.read_config, is_disk_cert_valid, read_certificate_from_disk   *)
(* and generate_files, over a certificate file and a private-key file.     *)
(***************************************************************************)
EXTENDS Integers, Sequences, FiniteSets, TLC

(* ------------------------------ bounds -------------------------------- *)
\* longest configured tls_fingerprints list
MaxOrigLen == 2
\* largest whole-day part of the times tried for the day arithmetic
MaxDay == 1

(* --------------------------- program constants ------------------------ *)
\* datetime.timedelta normalises seconds into days of 86400 seconds
SecondsPerDay == 86400
\* cert.gmtime_adj_notAfter(10 * 365 * 24 * 60 * 60)
TenYears == 10 * 365 * 24 * 60 * 60
\* a validity of 29.9 days, in seconds
Days29_9 == 299 * (SecondsPerDay \div 10)

(* ------------------------------ values -------------------------------- *)
Keys == {"k1", "k2"}
NoKey == "None"
\* the public half of a private key
Pub(k) == <<"pub", k>>

NoCert == [none |-> TRUE]
ServerName == "example.org"
CAName == "Some CA"

\* files: absent, present but not parseable PEM (empty, truncated, garbage),
\* or a PEM encoding of an object
Absent == [kind |-> "absent"]
Malformed == [kind |-> "malformed"]
Pem(obj) == [kind |-> "pem", obj |-> obj]

\* the time the server is started at: two and a half days after the epoch
StartTime == 5 * (SecondsPerDay \div 2)

ExternalCert(issuer, notAfter) ==
    [subject |-> ServerName, issuer |-> issuer, pubkey |-> Pub("k1"), notAfter |-> notAfter]

\* certificates an operator (or an ACME client) may put at the certificate path:
\* an expired self-signed one, an expired CA-issued one, a valid CA-issued one
ExternalCerts ==
    { ExternalCert(ServerName, StartTime - 1),
      ExternalCert(CAName, StartTime - 1),
      ExternalCert(CAName, StartTime + Days29_9) }

(* ----------------------- library and base-class helpers ---------------- *)
\* os.path.exists
os_path_exists(file) == file.kind # "absent"

\* Config.path_exists
path_exists(file) == os_path_exists(file)

\* Config.read_file: the file must exist, its content is returned
read_file(file) ==
    IF file.kind = "absent" THEN [err |-> "ConfigError"] ELSE [err |-> "none", val |-> file]

\* crypto.load_certificate / crypto.load_privatekey on a PEM blob
load_pem(blob) ==
    IF blob.kind = "pem" THEN [err |-> "none", val |-> blob.obj] ELSE [err |-> "crypto.Error"]

read_tls_certificate(cert_file) ==
    LET r == read_file(cert_file) IN IF r.err # "none" THEN r ELSE load_pem(r.val)

read_tls_private_key(key_file) ==
    LET r == read_file(key_file) IN IF r.err # "none" THEN r ELSE load_pem(r.val)

\* crypto.dump_certificate(FILETYPE_ASN1, cert): the DER bytes encode every field
dump_certificate(cert) == <<cert.subject, cert.issuer, cert.pubkey, cert.notAfter>>

\* encode_base64(sha256(der).digest()): collision free on the certificates tried
Fingerprint(cert) == <<"b64", dump_certificate(cert)>>

\* a fingerprint that is the digest of no certificate tried here
OtherFingerprint == <<"b64", <<"abc">>>>

(* --------------------------- fingerprint list -------------------------- *)
\* list(self._original_tls_fingerprints): a fresh list with the same entries
list_copy(orig) == [i \in 1..Len(orig) |-> orig[i]]

\* set(f["sha256"] for f in self.tls_fingerprints)
sha256_fingerprints(fps) == { fps[i].sha256 : i \in 1..Len(fps) }

\* variant: the append without the membership test of line 119
AppendAlways(fps, fp) == Append(fps, [sha256 |-> fp])

\* lines 118-120: append the own fingerprint unless its value is listed
AppendOwn(fps, fp) ==
    IF fp \notin sha256_fingerprints(fps) THEN Append(fps, [sha256 |-> fp]) ELSE fps

\* variant: line 110 left out, the list held before is kept
KeepCurrent(orig, cur) == cur

\* line 110: the list the reconcile starts from (cur is the list held before)
FreshList(orig, cur) == list_copy(orig)

(* ----------------------------- day arithmetic -------------------------- *)
\* datetime from a whole-second timestamp: (ordinal day, second of the day)
ToDatetime(t) == [day |-> t \div SecondsPerDay, sec |-> t % SecondsPerDay]

\* timedelta(days, seconds) normalises 0 <= seconds < 86400, carrying into days
Timedelta(days, seconds) ==
    [days |-> days + (seconds \div SecondsPerDay), seconds |-> seconds % SecondsPerDay]

\* variant: truncation toward zero of the total seconds, instead of timedelta's floor
TruncDays(notAfter, utcnow) ==
    LET d == notAfter - utcnow
    IN IF d >= 0 THEN d \div SecondsPerDay ELSE -((-d) \div SecondsPerDay)

\* (expires_on - now).days
DaysRemaining(notAfter, utcnow) ==
    LET e == ToDatetime(notAfter)
        n == ToDatetime(utcnow)
    IN Timedelta(e.day - n.day, e.sec - n.sec).days

(* --------------------------- is_disk_cert_valid ------------------------ *)
\* variant: the existence test of lines 71-72 left out
ValidSkipExists(cert_file, allow_self_signed, utcnow) ==
    LET r == load_pem(cert_file)
    IN IF r.err # "none" THEN [kind |-> "raise", err |-> r.err]
       ELSE IF ~allow_self_signed /\ r.val.subject = r.val.issuer
            THEN [kind |-> "raise", err |-> "ValueError"]
            ELSE [kind |-> "return", days |-> DaysRemaining(r.val.notAfter, utcnow)]

\* variant: the self-signed test applied to unexpired certificates only
ValidRejectExpired(cert_file, allow_self_signed, utcnow) ==
    IF ~os_path_exists(cert_file) THEN [kind |-> "None"]
    ELSE LET r == load_pem(cert_file)
         IN IF r.err # "none" THEN [kind |-> "raise", err |-> r.err]
            ELSE IF DaysRemaining(r.val.notAfter, utcnow) < 0
                 THEN [kind |-> "return", days |-> DaysRemaining(r.val.notAfter, utcnow)]
            ELSE IF ~allow_self_signed /\ r.val.subject = r.val.issuer
                 THEN [kind |-> "raise", err |-> "ValueError"]
                 ELSE [kind |-> "return", days |-> DaysRemaining(r.val.notAfter, utcnow)]

\* what is_disk_cert_valid returns or raises
DiskCertValid(cert_file, allow_self_signed, utcnow) ==
    IF ~os_path_exists(cert_file) THEN [kind |-> "None"]
    ELSE LET r == load_pem(cert_file)
         IN IF r.err # "none" THEN [kind |-> "raise", err |-> r.err]
            ELSE IF ~allow_self_signed /\ r.val.subject = r.val.issuer
                 THEN [kind |-> "raise", err |-> "ValueError"]
                 ELSE [kind |-> "return", days |-> DaysRemaining(r.val.notAfter, utcnow)]

(* ------------------------------ generate_files ------------------------- *)
\* variant: the certificate carries another key than the one in hand
SelfSignedOther(key, utcnow) ==
    [subject |-> ServerName, issuer |-> ServerName,
     pubkey |-> Pub(CHOOSE k \in Keys : k # key), notAfter |-> utcnow + TenYears]

\* lines 218-228: the self-signed certificate made for a private key
SelfSigned(key, utcnow) ==
    [subject |-> ServerName, issuer |-> ServerName,
     pubkey |-> Pub(key), notAfter |-> utcnow + TenYears]

\* variant: lines 201-214 always taking the generating branch
KeyStepOverwrite(key_file, fresh) ==
    [err |-> "none", file |-> Pem(fresh), key |-> fresh, wrote |-> TRUE]

\* lines 201-214: the key file afterwards, the key in hand, whether it was written
KeyStep(key_file, fresh) ==
    IF ~path_exists(key_file)
    THEN [err |-> "none", file |-> Pem(fresh), key |-> fresh, wrote |-> TRUE]
    ELSE LET r == load_pem(key_file)
         IN IF r.err # "none"
            THEN [err |-> r.err, file |-> key_file, key |-> NoKey, wrote |-> FALSE]
            ELSE [err |-> "none", file |-> key_file, key |-> r.val, wrote |-> FALSE]

\* lines 216-232: the certificate file afterwards and whether it was written;
\* the file is opened for writing before config["server_name"] is looked up
CertStep(cert_file, key, has_server_name, utcnow) ==
    IF path_exists(cert_file)
    THEN [err |-> "none", file |-> cert_file, wrote |-> FALSE]
    ELSE IF ~has_server_name
         THEN [err |-> "KeyError", file |-> Malformed, wrote |-> FALSE]
         ELSE [err |-> "none", file |-> Pem(SelfSigned(key, utcnow)), wrote |-> TRUE]

(* ------------------------------- state --------------------------------- *)
VARIABLES
    original_tls_fingerprints,  \* self._original_tls_fingerprints
    config_tls_fingerprints,    \* config["tls_fingerprints"] as given to read_config
    no_tls,                     \* self.no_tls
    tls_certificate,            \* self.tls_certificate
    tls_private_key,            \* self.tls_private_key
    tls_fingerprints,           \* self.tls_fingerprints
    cert_file,                  \* the file at tls_certificate_path
    key_file,                   \* the file at tls_private_key_path
    now,                        \* datetime.utcnow(), whole seconds
    result,                     \* what the last call returned or raised, and what it did
    loaded_once,                \* read_certificate_from_disk has returned normally
    pc,                         \* position of each overlapping invocation
    gkey,                       \* generate_files' local tls_private_key, per invocation
    wrote,                      \* the files each generate_files invocation wrote
    reload_pre,                 \* tls_fingerprints when the running reload was called
    observed                    \* what a reader of tls_fingerprints last saw

conf == <<original_tls_fingerprints, config_tls_fingerprints, no_tls>>
self_tls == <<tls_certificate, tls_private_key, tls_fingerprints>>
files == <<cert_file, key_file>>
conc == <<pc, gkey, wrote, reload_pre, observed>>
vars == <<conf, self_tls, files, now, result, loaded_once, conc>>

Generators == {"g1", "g2"}
Reloader == "reload"

\* fingerprint values a configuration may list
ConfigFingerprints == {OtherFingerprint, Fingerprint(SelfSigned("k1", StartTime))}

RECURSIVE ListsUpTo(_, _)
ListsUpTo(S, n) ==
    IF n = 0 THEN {<<>>}
    ELSE LET shorter == ListsUpTo(S, n - 1)
         IN shorter \cup { Append(l, [sha256 |-> v]) : l \in shorter, v \in S }

NoResult == [op |-> "read_config", kind |-> "None"]
NotObserved == [taken |-> FALSE]

\* read_config (lines 44-46, 56-57) on a fresh deployment, no invocation running
ConfigRead(fps, notls) ==
    /\ config_tls_fingerprints = fps
    /\ original_tls_fingerprints = fps
    /\ tls_fingerprints = list_copy(fps)
    /\ no_tls = notls
    /\ tls_certificate = NoCert
    /\ tls_private_key = NoKey
    /\ result = NoResult
    /\ loaded_once = FALSE
    /\ pc = [p \in Generators \cup {Reloader} |-> "idle"]
    /\ gkey = [p \in Generators |-> NoKey]
    /\ wrote = [p \in Generators |-> {}]
    /\ reload_pre = <<>>
    /\ observed = NotObserved

Init ==
    /\ \E fps \in ListsUpTo(ConfigFingerprints, MaxOrigLen), notls \in BOOLEAN :
          ConfigRead(fps, notls)
    /\ cert_file = Absent
    /\ key_file = Absent
    /\ now = StartTime

(* ------------------------- whole calls, one at a time ------------------- *)
IsDiskCertValid(allow_self_signed) ==
    /\ result' = [op |-> "is_disk_cert_valid", allow |-> allow_self_signed]
                    @@ DiskCertValid(cert_file, allow_self_signed, now)
    /\ UNCHANGED <<conf, self_tls, files, now, loaded_once, conc>>

ReadCertificateFromDisk ==
    LET c == read_tls_certificate(cert_file)
        k == read_tls_private_key(key_file)
        op == [op |-> "read_certificate_from_disk"]
    IN IF c.err # "none"
       THEN /\ result' = op @@ [kind |-> "raise", err |-> c.err]
            /\ UNCHANGED <<conf, self_tls, files, now, loaded_once, conc>>
       ELSE IF ~no_tls /\ k.err # "none"
       THEN /\ tls_certificate' = c.val
            /\ result' = op @@ [kind |-> "raise", err |-> k.err]
            /\ UNCHANGED <<conf, tls_private_key, tls_fingerprints, files, now,
                           loaded_once, conc>>
       ELSE /\ tls_certificate' = c.val
            /\ tls_private_key' = IF no_tls THEN tls_private_key ELSE k.val
            /\ tls_fingerprints' =
                  AppendOwn(FreshList(original_tls_fingerprints, tls_fingerprints),
                            Fingerprint(c.val))
            /\ result' = op @@ [kind |-> "None",
                                 repeat |-> /\ result.op = "read_certificate_from_disk"
                                            /\ result.kind = "None"
                                            /\ tls_certificate = c.val]
            /\ loaded_once' = TRUE
            /\ UNCHANGED <<conf, files, now, conc>>

GenerateFiles(has_server_name, fresh) ==
    LET k == KeyStep(key_file, fresh)
        c == CertStep(cert_file, k.key, has_server_name, now)
    IN /\ key_file' = k.file
       /\ IF k.err # "none"
          THEN /\ cert_file' = cert_file
               /\ result' = [op |-> "generate_files", wrote_key |-> k.wrote,
                             wrote_cert |-> FALSE, kind |-> "raise", err |-> k.err]
          ELSE /\ cert_file' = c.file
               /\ result' = [op |-> "generate_files", wrote_key |-> k.wrote,
                             wrote_cert |-> c.wrote]
                            @@ IF c.err # "none" THEN [kind |-> "raise", err |-> c.err]
                                                 ELSE [kind |-> "None"]
       /\ UNCHANGED <<conf, self_tls, now, loaded_once, conc>>

\* the operator replaces, removes or damages the files between calls
PutCertFile(f) ==
    /\ f # cert_file
    /\ cert_file' = f
    /\ UNCHANGED <<conf, self_tls, key_file, now, result, loaded_once, conc>>

PutKeyFile(f) ==
    /\ f # key_file
    /\ key_file' = f
    /\ UNCHANGED <<conf, self_tls, cert_file, now, result, loaded_once, conc>>

CertFiles == {Absent, Malformed} \cup { Pem(c) : c \in ExternalCerts }
KeyFiles == {Absent, Malformed} \cup { Pem(k) : k \in Keys }

Next ==
    \/ \E a \in BOOLEAN : IsDiskCertValid(a)
    \/ ReadCertificateFromDisk
    \/ \E h \in BOOLEAN, k \in Keys : GenerateFiles(h, k)
    \/ \E f \in CertFiles : PutCertFile(f)
    \/ \E f \in KeyFiles : PutKeyFile(f)

Spec == Init /\ [][Next]_vars

(* ------------------- day arithmetic over many clock readings ------------ *)
SecondsOfDay == {0, 1, SecondsPerDay - 1}
DayTimes == { d * SecondsPerDay + s : d \in 0..MaxDay, s \in SecondsOfDay }
Expiries == DayTimes \cup { t + Days29_9 : t \in DayTimes }

\* a certificate with any of the expiries is on disk when the server starts
InitDays ==
    /\ ConfigRead(<<>>, FALSE)
    /\ \E i \in {ServerName, CAName}, e \in Expiries : cert_file = Pem(ExternalCert(i, e))
    /\ key_file = Pem("k1")
    /\ now = 0

\* time passes between calls
Tick ==
    /\ \E t \in DayTimes : t > now /\ now' = t
    /\ UNCHANGED <<conf, self_tls, files, result, loaded_once, conc>>

NextDays ==
    \/ \E a \in BOOLEAN : IsDiskCertValid(a)
    \/ Tick

SpecDays == InitDays /\ [][NextDays]_vars

(* ----------------------- overlapping invocations ------------------------ *)
\* generate_files, statement by statement, for invocation p
GenKeyCheck(p) ==       \* line 201
    /\ pc[p] = "idle"
    /\ pc' = [pc EXCEPT ![p] = IF path_exists(key_file) THEN "key_read" ELSE "key_open"]
    /\ UNCHANGED <<conf, self_tls, files, now, result, loaded_once,
                   gkey, wrote, reload_pre, observed>>

GenKeyOpen(p) ==        \* line 202: open(..., "wb") creates or truncates the file
    /\ pc[p] = "key_open"
    /\ key_file' = Malformed
    /\ pc' = [pc EXCEPT ![p] = "key_write"]
    /\ UNCHANGED <<conf, self_tls, cert_file, now, result, loaded_once,
                   gkey, wrote, reload_pre, observed>>

GenKeyWrite(p, fresh) ==    \* lines 203-208
    /\ pc[p] = "key_write"
    /\ key_file' = Pem(fresh)
    /\ gkey' = [gkey EXCEPT ![p] = fresh]
    /\ wrote' = [wrote EXCEPT ![p] = @ \cup {"key"}]
    /\ pc' = [pc EXCEPT ![p] = "cert_check"]
    /\ UNCHANGED <<conf, self_tls, cert_file, now, result, loaded_once,
                   reload_pre, observed>>

GenKeyRead(p) ==        \* lines 210-214
    /\ pc[p] = "key_read"
    /\ LET r == load_pem(key_file)
       IN IF r.err # "none"
          THEN /\ pc' = [pc EXCEPT ![p] = "done"]
               /\ gkey' = gkey
          ELSE /\ pc' = [pc EXCEPT ![p] = "cert_check"]
               /\ gkey' = [gkey EXCEPT ![p] = r.val]
    /\ UNCHANGED <<conf, self_tls, files, now, result, loaded_once,
                   wrote, reload_pre, observed>>

GenCertCheck(p) ==      \* line 216
    /\ pc[p] = "cert_check"
    /\ pc' = [pc EXCEPT ![p] = IF path_exists(cert_file) THEN "done" ELSE "cert_open"]
    /\ UNCHANGED <<conf, self_tls, files, now, result, loaded_once,
                   gkey, wrote, reload_pre, observed>>

GenCertOpen(p) ==       \* line 217
    /\ pc[p] = "cert_open"
    /\ cert_file' = Malformed
    /\ pc' = [pc EXCEPT ![p] = "cert_write"]
    /\ UNCHANGED <<conf, self_tls, key_file, now, result, loaded_once,
                   gkey, wrote, reload_pre, observed>>

GenCertWrite(p, has_server_name) ==     \* lines 218-232
    /\ pc[p] = "cert_write"
    /\ IF has_server_name
       THEN /\ cert_file' = Pem(SelfSigned(gkey[p], now))
            /\ wrote' = [wrote EXCEPT ![p] = @ \cup {"cert"}]
       ELSE UNCHANGED <<cert_file, wrote>>
    /\ pc' = [pc EXCEPT ![p] = "done"]
    /\ UNCHANGED <<conf, self_tls, key_file, now, result, loaded_once,
                   gkey, reload_pre, observed>>

\* read_certificate_from_disk, statement by statement
ReloadCert ==           \* line 105
    /\ pc[Reloader] = "idle"
    /\ LET c == read_tls_certificate(cert_file)
       IN IF c.err # "none"
          THEN UNCHANGED <<tls_certificate, pc, reload_pre>>
          ELSE /\ tls_certificate' = c.val
               /\ reload_pre' = tls_fingerprints
               /\ pc' = [pc EXCEPT ![Reloader] = "key"]
    /\ UNCHANGED <<conf, tls_private_key, tls_fingerprints, files, now, result,
                   loaded_once, gkey, wrote, observed>>

ReloadKey ==            \* lines 107-108
    /\ pc[Reloader] = "key"
    /\ LET k == read_tls_private_key(key_file)
       IN IF no_tls
          THEN /\ pc' = [pc EXCEPT ![Reloader] = "copy"]
               /\ tls_private_key' = tls_private_key
          ELSE IF k.err # "none"
          THEN /\ pc' = [pc EXCEPT ![Reloader] = "idle"]
               /\ tls_private_key' = tls_private_key
          ELSE /\ pc' = [pc EXCEPT ![Reloader] = "copy"]
               /\ tls_private_key' = k.val
    /\ UNCHANGED <<conf, tls_certificate, tls_fingerprints, files, now, result,
                   loaded_once, gkey, wrote, reload_pre, observed>>

ReloadCopy ==           \* line 110
    /\ pc[Reloader] = "copy"
    /\ tls_fingerprints' = FreshList(original_tls_fingerprints, tls_fingerprints)
    /\ pc' = [pc EXCEPT ![Reloader] = "append"]
    /\ UNCHANGED <<conf, tls_certificate, tls_private_key, files, now, result,
                   loaded_once, gkey, wrote, reload_pre, observed>>

ReloadAppend ==         \* lines 114-120
    /\ pc[Reloader] = "append"
    /\ tls_fingerprints' = AppendOwn(tls_fingerprints, Fingerprint(tls_certificate))
    /\ loaded_once' = TRUE
    /\ pc' = [pc EXCEPT ![Reloader] = "idle"]
    /\ UNCHANGED <<conf, tls_certificate, tls_private_key, files, now, result,
                   gkey, wrote, reload_pre, observed>>

\* a publisher of the server keys reads self.tls_fingerprints while a reload runs
Observe ==
    /\ pc[Reloader] # "idle"
    /\ observed' = [taken |-> TRUE, fps |-> tls_fingerprints, pre |-> reload_pre,
                    post |-> AppendOwn(list_copy(original_tls_fingerprints),
                                       Fingerprint(tls_certificate))]
    /\ UNCHANGED <<conf, self_tls, files, now, result, loaded_once,
                   pc, gkey, wrote, reload_pre>>

NextConc ==
    \/ \E p \in Generators : GenKeyCheck(p)
    \/ \E p \in Generators : GenKeyOpen(p)
    \/ \E p \in Generators, k \in Keys : GenKeyWrite(p, k)
    \/ \E p \in Generators : GenKeyRead(p)
    \/ \E p \in Generators : GenCertCheck(p)
    \/ \E p \in Generators : GenCertOpen(p)
    \/ \E p \in Generators, h \in BOOLEAN : GenCertWrite(p, h)
    \/ ReloadCert
    \/ ReloadKey
    \/ ReloadCopy
    \/ ReloadAppend
    \/ Observe

SpecConc == Init /\ [][NextConc]_vars

(* ------------------------------- claims -------------------------------- *)
Count(fps, fp) == Cardinality({ i \in 1..Len(fps) : fps[i].sha256 = fp })

\* d is the floor of delta seconds expressed in days
IsFloorDays(d, delta) == d * SecondsPerDay <= delta /\ delta < (d + 1) * SecondsPerDay

AnyIsDiskCertValid == \E a \in BOOLEAN : IsDiskCertValid(a)
AnyGenerateFiles == \E h \in BOOLEAN, k \in Keys : GenerateFiles(h, k)
ReadReturned == result.op = "read_certificate_from_disk" /\ result.kind = "None"

\* C1: once read_certificate_from_disk has returned normally, tls_fingerprints
\* always lists the fingerprint of the certificate held in tls_certificate,
\* also after later reloads that fail part-way.
C1_OwnFingerprintListed ==
    loaded_once => Fingerprint(tls_certificate) \in sha256_fingerprints(tls_fingerprints)

\* C2: a second successful read_certificate_from_disk in a row, with the same
\* certificate, leaves tls_fingerprints as the first left it, and the own
\* fingerprint occurs as often as configured, or once if it was not configured.
C2_ReloadIdempotent ==
    [][ (ReadCertificateFromDisk /\ ReadReturned' /\ result'.repeat)
        => /\ tls_fingerprints' = tls_fingerprints
           /\ LET fp == Fingerprint(tls_certificate')
                  n == Count(original_tls_fingerprints, fp)
              IN Count(tls_fingerprints', fp) = IF n = 0 THEN 1 ELSE n ]_vars

C2_Witness ==
    /\ ReadReturned /\ result.repeat
    /\ Count(original_tls_fingerprints, Fingerprint(tls_certificate)) = 0
    /\ Len(original_tls_fingerprints) > 0

\* C3: after a successful read_certificate_from_disk, tls_fingerprints is the
\* configured list in its order, followed by one entry for the current
\* certificate iff its fingerprint is not configured; the configured list is
\* as read_config received it.
C3_ConfiguredThenOwn ==
    ReadReturned =>
        LET orig == original_tls_fingerprints
            n == Len(orig)
            fp == Fingerprint(tls_certificate)
            listed == \E i \in 1..n : orig[i].sha256 = fp
        IN /\ orig = config_tls_fingerprints
           /\ SubSeq(tls_fingerprints, 1, n) = orig
           /\ listed => Len(tls_fingerprints) = n
           /\ ~listed => /\ Len(tls_fingerprints) = n + 1
                          /\ tls_fingerprints[n + 1] = [sha256 |-> fp]

\* a second certificate has been loaded, over a configured list of two or more
C3_Witness ==
    /\ ReadReturned /\ ~result.repeat
    /\ Len(original_tls_fingerprints) >= 2
    /\ Len(tls_fingerprints) = Len(original_tls_fingerprints) + 1
    /\ tls_certificate \in ExternalCerts
    /\ tls_private_key = "k2"

\* C4: generate_files leaves a file that exists as it is, at each of the two
\* paths independently; it writes only where no file was.
C4_NeverOverwrites ==
    [][ AnyGenerateFiles
        => /\ key_file # Absent => key_file' = key_file
           /\ cert_file # Absent => cert_file' = cert_file ]_vars

\* the key was on disk and kept, the certificate was missing and written
C4_Witness ==
    /\ result.op = "generate_files" /\ ~result.wrote_key /\ result.wrote_cert
    /\ key_file = Pem("k2")

\* C5: when generate_files writes a certificate, its public key is the public
\* half of the private key at the key path when generate_files returns.
C5_CertMatchesKey ==
    [][ (AnyGenerateFiles /\ result'.wrote_cert)
        => /\ cert_file'.kind = "pem" /\ key_file'.kind = "pem"
           /\ cert_file'.obj.pubkey = Pub(key_file'.obj) ]_vars

\* key and certificate were generated in the same call
C5_Witness ==
    /\ result.op = "generate_files" /\ result.wrote_key /\ result.wrote_cert
    /\ cert_file.kind = "pem" /\ cert_file.obj.pubkey = Pub("k2")

\* C6: on a parseable certificate, is_disk_cert_valid raises the trust-policy
\* error iff allow_self_signed is false and subject equals issuer, expired or
\* not; otherwise it returns the days remaining.
C6_SelfSignedRejected ==
    [][ (AnyIsDiskCertValid /\ cert_file.kind = "pem")
        => LET c == cert_file.obj
               trust == result'.kind = "raise" /\ result'.err = "ValueError"
           IN /\ trust <=> (~result'.allow /\ c.subject = c.issuer)
              /\ ~trust => /\ result'.kind = "return"
                            /\ IsFloorDays(result'.days, c.notAfter - now) ]_vars

\* an expired self-signed certificate was rejected
C6_Witness ==
    /\ result.op = "is_disk_cert_valid" /\ ~result.allow
    /\ result.kind = "raise" /\ result.err = "ValueError"
    /\ cert_file = Pem(ExternalCert(ServerName, StartTime - 1))

\* C7: is_disk_cert_valid returns the floor of (notAfter - now) in days, not
\* clamped at zero; an expired certificate gives a negative number and no error.
C7_FloorOfDays ==
    [][ (AnyIsDiskCertValid /\ cert_file.kind = "pem")
        => LET c == cert_file.obj
           IN /\ result'.allow => result'.kind = "return"
              /\ result'.kind = "return"
                    => /\ IsFloorDays(result'.days, c.notAfter - now)
                       /\ c.notAfter < now => result'.days < 0
                       /\ c.notAfter = now - SecondsPerDay => result'.days <= -1
                       /\ c.notAfter - now = Days29_9 => result'.days = 29 ]_vars

\* a certificate that expired one second ago has -1 days remaining
C7_Witness ==
    /\ result.op = "is_disk_cert_valid" /\ result.kind = "return"
    /\ cert_file.kind = "pem" /\ cert_file.obj.notAfter - now = -1
    /\ result.days = -1

\* C8: with no file at the certificate path is_disk_cert_valid returns None,
\* raises nothing, and leaves tls_certificate, tls_private_key and
\* tls_fingerprints as they were, whatever allow_self_signed is.
C8_AbsentGivesNone ==
    [][ (AnyIsDiskCertValid /\ cert_file = Absent)
        => /\ result'.kind = "None"
           /\ UNCHANGED <<tls_certificate, tls_private_key, tls_fingerprints>> ]_vars

\* asked with allow_self_signed false, after a certificate was loaded and removed
C8_Witness ==
    /\ result.op = "is_disk_cert_valid" /\ ~result.allow /\ result.kind = "None"
    /\ cert_file = Absent
    /\ loaded_once /\ tls_private_key # NoKey

\* C9: a reader of tls_fingerprints during a running read_certificate_from_disk
\* sees the list from before the call or the list after it, nothing in between.
C9_ReaderSeesWholeList ==
    observed.taken => observed.fps = observed.pre \/ observed.fps = observed.post

\* C10: two overlapping generate_files invocations never both write the
\* private-key file and never both write the certificate file.
C10_SingleWriter ==
    \A f \in {"key", "cert"} : Cardinality({ p \in Generators : f \in wrote[p] }) <= 1

====
